---------------------------- MODULE Spec2Model ----------------------------
(***************************************************************************)
(* A model of src/tracker.py: the status-feed tracker.                     *)
(*                                                                         *)
(*   main        starts one watch_feed task per configured feed with       *)
(*               asyncio.gather(..., return_exceptions=True) and, once     *)
(*               every task has terminated, logs the crashed ones.         *)
(*   watch_feed  the per-feed poll loop: fetch_feed, baseline cycle,       *)
(*               seen-set deduplication, one print_event per new entry.    *)
(*   fetch_feed  up to MAX_RETRIES attempts with a backoff between them.   *)
(*                                                                         *)
(* Every watcher is a process whose position is pc[w]; the locals of       *)
(* watch_feed and fetch_feed are functions over the configured feeds.      *)
(***************************************************************************)
EXTENDS Integers, Sequences, FiniteSets, TLC

(***************************************************************************)
(* Bounds of the model.                                                    *)
(***************************************************************************)
\* entry identifiers are 1..NumIds
NumIds == 2
\* a snapshot holds at most MaxEntries entries
MaxEntries == 2
\* a value of POLL_INTERVAL holds at most MaxRawLen characters
MaxRawLen == 3
\* a text given to clean_html holds at most MaxTextLen characters
MaxTextLen == 6
\* a summary given to extract_components is made of at most MaxParts pieces
MaxParts == 4

(***************************************************************************)
(* Program constants.                                                      *)
(***************************************************************************)
\* line 43
MAX_RETRIES == 3
\* line 44
RETRY_BACKOFF == 5
\* lines 24, 28, 30: the floor and the default of the poll interval
MIN_INTERVAL == 10
DEFAULT_INTERVAL == 30
\* line 120: `not eid` holds of a missing (None) or empty identifier; both
\* are the one value NoId here
NoId == 0

Ids == 1..NumIds

(***************************************************************************)
(* _parse_interval (lines 21-30).  A raw value is a sequence of            *)
(* characters; int(raw) accepts an optional sign followed by one or more   *)
(* digits, surrounded by blanks, and raises ValueError otherwise.          *)
(***************************************************************************)
Digits == <<"0", "1", "2", "3", "4", "5", "6", "7", "8", "9">>

IsDigit(c) == \E i \in 1..10 : Digits[i] = c

DigitVal(c) == (CHOOSE i \in 1..10 : Digits[i] = c) - 1

RECURSIVE Strip(_)
Strip(s) ==
    IF s = <<>> THEN s
    ELSE IF Head(s) = " " THEN Strip(Tail(s))
    ELSE IF s[Len(s)] = " " THEN Strip(SubSeq(s, 1, Len(s) - 1))
    ELSE s

RECURSIVE DigitsValue(_, _)
DigitsValue(s, acc) ==
    IF s = <<>> THEN acc ELSE DigitsValue(Tail(s), 10 * acc + DigitVal(Head(s)))

\* int(raw): [ok |-> TRUE, val |-> n], or ok = FALSE for a ValueError
PyInt(raw) ==
    LET t == Strip(raw)
        signed == t # <<>> /\ Head(t) \in {"-", "+"}
        body == IF signed THEN Tail(t) ELSE t
    IN  IF body # <<>> /\ \A i \in 1..Len(body) : IsDigit(body[i])
        THEN [ok |-> TRUE,
              val |-> IF signed /\ Head(t) = "-"
                      THEN 0 - DigitsValue(body, 0) ELSE DigitsValue(body, 0)]
        ELSE [ok |-> FALSE, val |-> 0]

\* _parse_interval with <= for < at line 24
_parse_interval_Strict(raw) ==
    LET r == PyInt(raw)
    IN  IF r.ok
        THEN IF r.val <= MIN_INTERVAL THEN DEFAULT_INTERVAL ELSE r.val
        ELSE DEFAULT_INTERVAL

_parse_interval(raw) ==
    LET r == PyInt(raw)
    IN  IF r.ok
        THEN IF r.val < MIN_INTERVAL THEN DEFAULT_INTERVAL ELSE r.val
        ELSE DEFAULT_INTERVAL

\* values of the POLL_INTERVAL environment variable (the first is the
\* default of os.getenv, line 32)
RawIntervals ==
    { <<"3", "0">>, <<"5">>, <<"4", "5">>, <<"x">> }

(***************************************************************************)
(* Entries and snapshots.  An entry carries its identifier and what of it  *)
(* makes the loop body raise: a summary that is no string makes clean_html *)
(* raise at line 125, a timestamp that is no calendar time makes           *)
(* format_time raise at line 140.                                          *)
(***************************************************************************)
Entries == [id : Ids \cup {NoId}, fault : {"none", "summary", "time"}]

SeqsUpTo(S, n) == UNION { [1..k -> S] : k \in 0..n }

Snapshots == SeqsUpTo(Entries, MaxEntries)

\* the snapshots served in the runs with several feeds
SmallSnapshots ==
    {<<>>} \cup { <<e>> : e \in {x \in Entries : x.id \in {NoId, 1}} }

\* the value of fetch_feed: a parsed feed, or None
Parsed(entries) == [ok |-> TRUE, entries |-> entries]
Unavailable == [ok |-> FALSE, entries |-> <<>>]

EntryIds(entries) == { entries[i].id : i \in 1..Len(entries) } \ {NoId}

VARIABLES
    FEEDS,            \* line 34: the configured feeds, in order
    CHECK_INTERVAL,   \* line 32
    source,           \* which snapshots the status pages may serve
    pc,               \* each watcher's position in watch_feed / fetch_feed
    seen_entries,     \* line 104
    is_initialized,   \* line 105
    feed,             \* line 110: the value of the last fetch_feed call
    idx,              \* the position of the for loop of line 117
    attempt,          \* line 78
    outcomes,         \* what each attempt of the running fetch_feed call did
    waits,            \* the backoff sleeps of the running fetch_feed call
    delay,            \* the duration of the pending asyncio.sleep, or 0
    printed,          \* the identifiers print_event was called for, in order
    start,            \* history: seen-set, flag and events at the cycle's start
    fetched,          \* history: some fetch_feed call has returned a feed
    baseline,         \* history: the identifiers of the baseline snapshot
    mainPc,           \* main's position
    mainIdx,          \* the position of the loop of line 160
    errorLog,         \* the feeds logged as crashed at line 162
    call              \* a helper called on its own: name, argument, value

watcherVars ==
    <<pc, seen_entries, is_initialized, feed, idx, attempt, outcomes, waits,
      delay, printed, start, fetched, baseline>>
configVars == <<FEEDS, CHECK_INTERVAL, source, call>>
mainVars == <<mainPc, mainIdx, errorLog>>
vars == <<configVars, watcherVars, mainVars>>

Watchers == DOMAIN pc

\* no helper is called on its own
NoCall == [fn |-> "none", arg |-> <<>>, ret |-> <<>>, done |-> TRUE]

\* the helper fn is called with arg
Call(fn, arg) == [fn |-> fn, arg |-> arg, ret |-> <<>>, done |-> FALSE]

\* the snapshots a fetch may return in this run
Served == IF source = "all" THEN Snapshots ELSE SmallSnapshots

Range(f) == { f[i] : i \in DOMAIN f }

(***************************************************************************)
(* The initial state: main has built one watch_feed coroutine per feed     *)
(* (line 156); every watcher stands at its first fetch_feed call with an   *)
(* empty seen-set (lines 104-110).                                         *)
(***************************************************************************)
InitWith(feeds, snaps) ==
    /\ FEEDS = feeds
    /\ CHECK_INTERVAL \in { _parse_interval(r) : r \in RawIntervals }
    /\ source = snaps
    /\ pc = [w \in Range(feeds) |-> "fetch"]
    /\ seen_entries = [w \in Range(feeds) |-> {}]
    /\ is_initialized = [w \in Range(feeds) |-> FALSE]
    /\ feed = [w \in Range(feeds) |-> Unavailable]
    /\ idx = [w \in Range(feeds) |-> 0]
    /\ attempt = [w \in Range(feeds) |-> 1]
    /\ outcomes = [w \in Range(feeds) |-> <<>>]
    /\ waits = [w \in Range(feeds) |-> <<>>]
    /\ delay = [w \in Range(feeds) |-> 0]
    /\ printed = [w \in Range(feeds) |-> <<>>]
    /\ start = [w \in Range(feeds) |-> [seen |-> {}, init |-> FALSE, printed |-> 0]]
    /\ fetched = [w \in Range(feeds) |-> FALSE]
    /\ baseline = [w \in Range(feeds) |-> {}]
    /\ mainPc = "gather"
    /\ mainIdx = 0
    /\ errorLog = <<>>
    /\ call = NoCall

\* one feed, every snapshot up to MaxEntries entries
Init == InitWith(<<"A">>, "all")

\* two feeds, the small snapshots
InitMulti == InitWith(<<"A", "B">>, "small")

(***************************************************************************)
(* fetch_feed (lines 76-98).                                               *)
(***************************************************************************)
\* SleepsAfter with <= for < at line 94
SleepsAfter_Always(a) == a <= MAX_RETRIES

\* line 94: a backoff sleep follows failed attempt a
SleepsAfter(a) == a < MAX_RETRIES

\* line 78: the loop has an iteration after attempt a
HasNext(a) == a + 1 <= MAX_RETRIES

\* BackoffDelay without the factor of line 95
BackoffDelay_Flat(a) == RETRY_BACKOFF

\* line 95
BackoffDelay(a) == RETRY_BACKOFF * a

\* NextIteration with the last exception raised again instead of lines 97-98
NextIteration_Raise(w) ==
    IF HasNext(attempt[w])
    THEN /\ attempt' = [attempt EXCEPT ![w] = @ + 1]
         /\ pc' = [pc EXCEPT ![w] = "fetch"]
         /\ feed' = feed
    ELSE /\ pc' = [pc EXCEPT ![w] = "crashed"]
         /\ UNCHANGED <<feed, attempt>>

\* lines 78, 97-98: the next iteration of the loop, or its end
NextIteration(w) ==
    IF HasNext(attempt[w])
    THEN /\ attempt' = [attempt EXCEPT ![w] = @ + 1]
         /\ pc' = [pc EXCEPT ![w] = "fetch"]
         /\ feed' = feed
    ELSE /\ feed' = [feed EXCEPT ![w] = Unavailable]
         /\ pc' = [pc EXCEPT ![w] = "returned"]
         /\ attempt' = attempt

\* lines 80, 90: feedparser.parse returns a well-formed feed
AttemptOk(w) ==
    /\ pc[w] = "fetch"
    /\ \E s \in Served : feed' = [feed EXCEPT ![w] = Parsed(s)]
    /\ outcomes' = [outcomes EXCEPT ![w] = Append(@, "ok")]
    /\ pc' = [pc EXCEPT ![w] = "returned"]
    /\ fetched' = [fetched EXCEPT ![w] = TRUE]
    /\ UNCHANGED <<seen_entries, is_initialized, idx, attempt, waits, delay,
                   printed, start, baseline, configVars, mainVars>>

\* lines 92-95: the attempt raises; sleep before the next one, if any
OnFault(w) ==
    IF SleepsAfter(attempt[w])
    THEN /\ delay' = [delay EXCEPT ![w] = BackoffDelay(attempt[w])]
         /\ waits' = [waits EXCEPT ![w] = Append(@, BackoffDelay(attempt[w]))]
         /\ pc' = [pc EXCEPT ![w] = "backoff"]
         /\ UNCHANGED <<feed, attempt>>
    ELSE /\ NextIteration(w)
         /\ UNCHANGED <<delay, waits>>

\* BozoResult with a bozo feed handled as a failed attempt
BozoResult_Retry(w) == OnFault(w)

\* the value returned for a feed whose bozo flag is set (lines 83-88)
BozoResult(w) ==
    /\ feed' = [feed EXCEPT ![w] = Unavailable]
    /\ pc' = [pc EXCEPT ![w] = "returned"]
    /\ UNCHANGED <<attempt, waits, delay>>

\* lines 80-88: feedparser.parse returns a feed with the bozo flag set
AttemptBozo(w) ==
    /\ pc[w] = "fetch"
    /\ outcomes' = [outcomes EXCEPT ![w] = Append(@, "bozo")]
    /\ BozoResult(w)
    /\ UNCHANGED <<seen_entries, is_initialized, idx, printed, start, fetched, baseline,
                   configVars, mainVars>>

AttemptFault(w) ==
    /\ pc[w] = "fetch"
    /\ outcomes' = [outcomes EXCEPT ![w] = Append(@, "fault")]
    /\ OnFault(w)
    /\ UNCHANGED <<seen_entries, is_initialized, idx, printed, start, fetched, baseline,
                   configVars, mainVars>>

\* line 95: the backoff sleep is over
BackoffDone(w) ==
    /\ pc[w] = "backoff"
    /\ delay' = [delay EXCEPT ![w] = 0]
    /\ NextIteration(w)
    /\ UNCHANGED <<seen_entries, is_initialized, idx, outcomes, waits, printed,
                   start, fetched, baseline, configVars, mainVars>>

(***************************************************************************)
(* watch_feed (lines 102-147).                                             *)
(***************************************************************************)
\* OnUnavailable with only the for loop under the test of line 112: line
\* 146 runs in an unavailable cycle too
OnUnavailable_Initializes(w) ==
    /\ pc' = [pc EXCEPT ![w] = "sleep"]
    /\ delay' = [delay EXCEPT ![w] = CHECK_INTERVAL]
    /\ is_initialized' = [is_initialized EXCEPT ![w] = TRUE]
    /\ UNCHANGED idx

\* OnUnavailable with return for continue at line 115
OnUnavailable_Stops(w) ==
    /\ pc' = [pc EXCEPT ![w] = "stopped"]
    /\ UNCHANGED <<delay, is_initialized, idx>>

\* lines 112-115: what watch_feed does with None
OnUnavailable(w) ==
    /\ pc' = [pc EXCEPT ![w] = "sleep"]
    /\ delay' = [delay EXCEPT ![w] = CHECK_INTERVAL]
    /\ UNCHANGED <<is_initialized, idx>>

\* lines 110-117: fetch_feed has returned; its locals are gone
Returned(w) ==
    /\ pc[w] = "returned"
    /\ attempt' = [attempt EXCEPT ![w] = 1]
    /\ outcomes' = [outcomes EXCEPT ![w] = <<>>]
    /\ waits' = [waits EXCEPT ![w] = <<>>]
    /\ IF ~feed[w].ok
       THEN OnUnavailable(w)
       ELSE /\ pc' = [pc EXCEPT ![w] = "entries"]
            /\ idx' = [idx EXCEPT ![w] = 1]
            /\ UNCHANGED <<is_initialized, delay>>
    /\ UNCHANGED <<seen_entries, feed, printed, start, fetched, baseline, configVars, mainVars>>

\* Current with the snapshot walked from its last entry to its first
Current_Reversed(w) == feed[w].entries[Len(feed[w].entries) - idx[w] + 1]

\* the entry the for loop of line 117 stands at
Current(w) == feed[w].entries[idx[w]]

InLoop(w) == pc[w] = "entries" /\ idx[w] <= Len(feed[w].entries)

\* NotEid with the test of line 120 dropped
NotEid_Never(eid) == FALSE

\* line 120
NotEid(eid) == eid = NoId

\* AlreadySeen with the test of line 131 dropped
AlreadySeen_Never(w, eid) == FALSE

\* line 131
AlreadySeen(w, eid) == eid \in seen_entries[w]

\* the history variable baseline records the identifiers of the snapshot
\* of the cycle that line 146 ends with is_initialized still False
BaselineAtLoopEnd(w) ==
    baseline' = [baseline EXCEPT ![w] = IF is_initialized[w] THEN @
                                        ELSE EntryIds(feed[w].entries)]

\* LoopEnd without line 146: the watcher never leaves the baseline state
LoopEnd_NoInit(w) ==
    /\ pc[w] = "entries"
    /\ idx[w] > Len(feed[w].entries)
    /\ pc' = [pc EXCEPT ![w] = "sleep"]
    /\ delay' = [delay EXCEPT ![w] = CHECK_INTERVAL]
    /\ BaselineAtLoopEnd(w)
    /\ UNCHANGED <<seen_entries, is_initialized, feed, idx, attempt, outcomes,
                   waits, printed, start, fetched, configVars, mainVars>>

\* LoopEnd with the seen-set cut down to the identifiers of this snapshot
LoopEnd_Prune(w) ==
    /\ pc[w] = "entries"
    /\ idx[w] > Len(feed[w].entries)
    /\ seen_entries' = [seen_entries EXCEPT ![w] = EntryIds(feed[w].entries)]
    /\ is_initialized' = [is_initialized EXCEPT ![w] = TRUE]
    /\ pc' = [pc EXCEPT ![w] = "sleep"]
    /\ delay' = [delay EXCEPT ![w] = CHECK_INTERVAL]
    /\ BaselineAtLoopEnd(w)
    /\ UNCHANGED <<feed, idx, attempt, outcomes, waits, printed, start,
                   fetched, configVars, mainVars>>

\* lines 146-147: the for loop is over
LoopEnd(w) ==
    /\ pc[w] = "entries"
    /\ idx[w] > Len(feed[w].entries)
    /\ is_initialized' = [is_initialized EXCEPT ![w] = TRUE]
    /\ pc' = [pc EXCEPT ![w] = "sleep"]
    /\ delay' = [delay EXCEPT ![w] = CHECK_INTERVAL]
    /\ BaselineAtLoopEnd(w)
    /\ UNCHANGED <<seen_entries, feed, idx, attempt, outcomes, waits, printed,
                   start, fetched, configVars, mainVars>>

\* lines 119-122: an entry without identifier
SkipNoId(w) ==
    /\ InLoop(w)
    /\ NotEid(Current(w).id)
    /\ idx' = [idx EXCEPT ![w] = @ + 1]
    /\ UNCHANGED <<pc, seen_entries, is_initialized, feed, attempt, outcomes,
                   waits, delay, printed, start, fetched, baseline, configVars, mainVars>>

\* TaskFailed with return_exceptions=False: gather raises in main, and
\* asyncio.run cancels the tasks still running
TaskFailed_Propagates(w) ==
    pc' = [x \in DOMAIN pc |->
              IF x = w \/ pc[x] = "crashed" THEN "crashed" ELSE "cancelled"]

\* an exception leaves watch_feed: the task ends, and gather, called with
\* return_exceptions=True, keeps the exception as the task's result
\* (lines 155-158)
TaskFailed(w) == pc' = [pc EXCEPT ![w] = "crashed"]

\* line 125: clean_html raises on a summary that is no string
CrashSummary(w) ==
    /\ InLoop(w)
    /\ ~NotEid(Current(w).id)
    /\ Current(w).fault = "summary"
    /\ TaskFailed(w)
    /\ UNCHANGED <<seen_entries, is_initialized, feed, idx, attempt, outcomes,
                   waits, delay, printed, start, fetched, baseline, configVars, mainVars>>

\* Absorb without line 128: the baseline cycle forgets the identifier
Absorb_NoAdd(w) ==
    /\ InLoop(w)
    /\ ~NotEid(Current(w).id)
    /\ Current(w).fault # "summary"
    /\ ~is_initialized[w]
    /\ idx' = [idx EXCEPT ![w] = @ + 1]
    /\ UNCHANGED <<pc, seen_entries, is_initialized, feed, attempt, outcomes,
                   waits, delay, printed, start, fetched, baseline, configVars, mainVars>>

\* lines 127-129: the baseline cycle absorbs the identifier
Absorb(w) ==
    /\ InLoop(w)
    /\ ~NotEid(Current(w).id)
    /\ Current(w).fault # "summary"
    /\ ~is_initialized[w]
    /\ seen_entries' = [seen_entries EXCEPT ![w] = @ \cup {Current(w).id}]
    /\ idx' = [idx EXCEPT ![w] = @ + 1]
    /\ UNCHANGED <<pc, is_initialized, feed, attempt, outcomes, waits, delay,
                   printed, start, fetched, baseline, configVars, mainVars>>

\* lines 131-132
SkipSeen(w) ==
    /\ InLoop(w)
    /\ ~NotEid(Current(w).id)
    /\ Current(w).fault # "summary"
    /\ is_initialized[w]
    /\ AlreadySeen(w, Current(w).id)
    /\ idx' = [idx EXCEPT ![w] = @ + 1]
    /\ UNCHANGED <<pc, seen_entries, is_initialized, feed, attempt, outcomes,
                   waits, delay, printed, start, fetched, baseline, configVars, mainVars>>

\* MarkSeen without line 134: the event is built before the insertion
MarkSeen_NoInsert(w) ==
    /\ InLoop(w)
    /\ ~NotEid(Current(w).id)
    /\ Current(w).fault # "summary"
    /\ is_initialized[w]
    /\ ~AlreadySeen(w, Current(w).id)
    /\ pc' = [pc EXCEPT ![w] = "emit"]
    /\ UNCHANGED <<seen_entries, is_initialized, feed, idx, attempt, outcomes,
                   waits, delay, printed, start, fetched, baseline, configVars, mainVars>>

\* MarkSeen with line 134 an assignment: the seen-set is replaced
MarkSeen_Replace(w) ==
    /\ InLoop(w)
    /\ ~NotEid(Current(w).id)
    /\ Current(w).fault # "summary"
    /\ is_initialized[w]
    /\ ~AlreadySeen(w, Current(w).id)
    /\ seen_entries' = [seen_entries EXCEPT ![w] = {Current(w).id}]
    /\ pc' = [pc EXCEPT ![w] = "emit"]
    /\ UNCHANGED <<is_initialized, feed, idx, attempt, outcomes, waits, delay,
                   printed, start, fetched, baseline, configVars, mainVars>>

\* line 134: a new identifier enters the seen-set
MarkSeen(w) ==
    /\ InLoop(w)
    /\ ~NotEid(Current(w).id)
    /\ Current(w).fault # "summary"
    /\ is_initialized[w]
    /\ ~AlreadySeen(w, Current(w).id)
    /\ seen_entries' = [seen_entries EXCEPT ![w] = @ \cup {Current(w).id}]
    /\ pc' = [pc EXCEPT ![w] = "emit"]
    /\ UNCHANGED <<is_initialized, feed, idx, attempt, outcomes, waits, delay,
                   printed, start, fetched, baseline, configVars, mainVars>>

\* line 140: format_time raises on a timestamp that is no calendar time
CrashTime(w) ==
    /\ pc[w] = "emit"
    /\ Current(w).fault = "time"
    /\ TaskFailed(w)
    /\ UNCHANGED <<seen_entries, is_initialized, feed, idx, attempt, outcomes,
                   waits, delay, printed, start, fetched, baseline, configVars, mainVars>>

\* lines 137-144: print_event for the new entry
Emit(w) ==
    /\ pc[w] = "emit"
    /\ Current(w).fault # "time"
    /\ printed' = [printed EXCEPT ![w] = Append(@, Current(w).id)]
    /\ idx' = [idx EXCEPT ![w] = @ + 1]
    /\ pc' = [pc EXCEPT ![w] = "entries"]
    /\ UNCHANGED <<seen_entries, is_initialized, feed, attempt, outcomes,
                   waits, delay, start, fetched, baseline, configVars, mainVars>>

\* lines 114-115, 147, 109-110: the poll sleep is over, the next cycle
\* calls fetch_feed.  The old value of feed is not read again before line
\* 110 assigns it, so it is dropped here.
Wake(w) ==
    /\ pc[w] = "sleep"
    /\ pc' = [pc EXCEPT ![w] = "fetch"]
    /\ delay' = [delay EXCEPT ![w] = 0]
    /\ feed' = [feed EXCEPT ![w] = Unavailable]
    /\ idx' = [idx EXCEPT ![w] = 0]
    /\ start' = [start EXCEPT ![w] = [seen |-> seen_entries[w],
                                      init |-> is_initialized[w],
                                      printed |-> Len(printed[w])]]
    /\ UNCHANGED <<seen_entries, is_initialized, attempt, outcomes, waits,
                   printed, fetched, baseline, configVars, mainVars>>

WatcherStep(w) ==
    \/ AttemptOk(w)
    \/ AttemptBozo(w)
    \/ AttemptFault(w)
    \/ BackoffDone(w)
    \/ Returned(w)
    \/ LoopEnd(w)
    \/ SkipNoId(w)
    \/ CrashSummary(w)
    \/ Absorb(w)
    \/ SkipSeen(w)
    \/ MarkSeen(w)
    \/ CrashTime(w)
    \/ Emit(w)
    \/ Wake(w)

(***************************************************************************)
(* main (lines 151-162).                                                   *)
(***************************************************************************)
\* GatherReturns as if gather returned at the first task that ends
GatherReturns_Early ==
    /\ mainPc = "gather"
    /\ \E w \in Watchers : pc[w] = "crashed"
    /\ mainPc' = "report"
    /\ mainIdx' = 1
    /\ UNCHANGED <<errorLog, watcherVars, configVars>>

\* lines 155-158: gather returns once every task has ended
GatherReturns ==
    /\ mainPc = "gather"
    /\ \A w \in Watchers : pc[w] = "crashed"
    /\ mainPc' = "report"
    /\ mainIdx' = 1
    /\ UNCHANGED <<errorLog, watcherVars, configVars>>

\* lines 160-162: one iteration over zip(FEEDS, results)
Report ==
    /\ mainPc = "report"
    /\ mainIdx <= Len(FEEDS)
    /\ errorLog' = IF pc[FEEDS[mainIdx]] = "crashed"
                   THEN Append(errorLog, FEEDS[mainIdx])
                   ELSE errorLog
    /\ mainIdx' = mainIdx + 1
    /\ UNCHANGED <<mainPc, watcherVars, configVars>>

\* main returns
MainReturns ==
    /\ mainPc = "report"
    /\ mainIdx > Len(FEEDS)
    /\ mainPc' = "done"
    /\ UNCHANGED <<mainIdx, errorLog, watcherVars, configVars>>

Next ==
    \/ \E w \in Watchers : AttemptOk(w)
    \/ \E w \in Watchers : AttemptBozo(w)
    \/ \E w \in Watchers : AttemptFault(w)
    \/ \E w \in Watchers : BackoffDone(w)
    \/ \E w \in Watchers : Returned(w)
    \/ \E w \in Watchers : LoopEnd(w)
    \/ \E w \in Watchers : SkipNoId(w)
    \/ \E w \in Watchers : CrashSummary(w)
    \/ \E w \in Watchers : Absorb(w)
    \/ \E w \in Watchers : SkipSeen(w)
    \/ \E w \in Watchers : MarkSeen(w)
    \/ \E w \in Watchers : CrashTime(w)
    \/ \E w \in Watchers : Emit(w)
    \/ \E w \in Watchers : Wake(w)
    \/ GatherReturns
    \/ Report
    \/ MainReturns

Spec == Init /\ [][Next]_vars

SpecMulti == InitMulti /\ [][Next]_vars

(***************************************************************************)
(* The helpers on their own: each run calls one helper with one argument.  *)
(***************************************************************************)
\* the characters of the values of POLL_INTERVAL
RawChars == {"0", "1", "4", "5", "9", "-", "+", " ", "x"}

RawValues == SeqsUpTo(RawChars, MaxRawLen)

(***************************************************************************)
(* clean_html (lines 48-49): re.sub(r"<[^<]+?>", "", text).strip().        *)
(* A text is a sequence of characters.                                     *)
(***************************************************************************)
\* the end of the match of <[^<]+?> that starts at i, or 0: "<", then the
\* fewest characters other than "<" (at least one), then ">"
MatchEnd(s, i) ==
    LET ends == { j \in (i + 2)..Len(s) :
                     /\ s[j] = ">"
                     /\ \A k \in (i + 1)..(j - 1) : s[k] # "<" }
    IN  IF i <= Len(s) /\ s[i] = "<" /\ ends # {}
        THEN CHOOSE j \in ends : \A m \in ends : j <= m
        ELSE 0

\* SubTags with count=1: only the first match is removed
RECURSIVE SubTags_First(_, _)
SubTags_First(s, i) ==
    IF i > Len(s) THEN <<>>
    ELSE IF MatchEnd(s, i) > 0 THEN SubSeq(s, MatchEnd(s, i) + 1, Len(s))
    ELSE <<s[i]>> \o SubTags_First(s, i + 1)

\* re.sub from position i on: the matches are found left to right, without
\* overlap, and removed
RECURSIVE SubTags(_, _)
SubTags(s, i) ==
    IF i > Len(s) THEN <<>>
    ELSE IF MatchEnd(s, i) > 0 THEN SubTags(s, MatchEnd(s, i) + 1)
    ELSE <<s[i]>> \o SubTags(s, i + 1)

clean_html(text) == Strip(SubTags(text, 1))

TextChars == {"<", ">", "a", " "}

Texts == SeqsUpTo(TextChars, MaxTextLen)

(***************************************************************************)
(* extract_components (lines 53-55).                                       *)
(***************************************************************************)
LiOpen == <<"<", "l", "i", ">">>
LiClose == <<"<", "/", "l", "i", ">">>

\* t occurs in s at position i
At(s, i, t) == i + Len(t) - 1 <= Len(s) /\ SubSeq(s, i, i + Len(t) - 1) = t

\* the first position from i on where t occurs in s, or 0
Find(s, i, t) ==
    LET at == { k \in i..Len(s) : At(s, k, t) }
    IN  IF at = {} THEN 0 ELSE CHOOSE k \in at : \A m \in at : k <= m

\* re.findall(r"<li>(.*?)</li>", html, re.DOTALL) from position i on: the
\* groups of the matches, left to right, without overlap
RECURSIVE FindItems(_, _)
FindItems(s, i) ==
    IF i > Len(s) THEN <<>>
    ELSE IF At(s, i, LiOpen) /\ Find(s, i + 4, LiClose) > 0
    THEN <<SubSeq(s, i + 4, Find(s, i + 4, LiClose) - 1)>>
         \o FindItems(s, Find(s, i + 4, LiClose) + 5)
    ELSE FindItems(s, i + 1)

\* the end of the match of <[^>]+> that starts at i, or 0: "<", then every
\* character up to the next ">" (at least one), then that ">"
InnerEnd(s, i) ==
    IF i <= Len(s) /\ s[i] = "<" /\ Find(s, i + 1, <<">">>) >= i + 2
    THEN Find(s, i + 1, <<">">>)
    ELSE 0

\* re.sub(r"<[^>]+>", "", item) from position i on
RECURSIVE SubInner(_, _)
SubInner(s, i) ==
    IF i > Len(s) THEN <<>>
    ELSE IF InnerEnd(s, i) > 0 THEN SubInner(s, InnerEnd(s, i) + 1)
    ELSE <<s[i]>> \o SubInner(s, i + 1)

\* line 55: the items that are not blank, each with its tags removed and
\* trimmed
RECURSIVE StripItems(_)
StripItems(raw) ==
    IF raw = <<>> THEN <<>>
    ELSE IF Strip(Head(raw)) # <<>>
    THEN <<Strip(SubInner(Head(raw), 1))>> \o StripItems(Tail(raw))
    ELSE StripItems(Tail(raw))

extract_components(html) == StripItems(FindItems(html, 1))

\* the pieces the summaries are made of
Pieces == {LiOpen, LiClose, <<"<", "b", ">">>, <<"a">>, <<" ">>}

RECURSIVE Flatten(_)
Flatten(parts) ==
    IF parts = <<>> THEN <<>> ELSE Head(parts) \o Flatten(Tail(parts))

\* a list of two components, the second with an inner tag
TwoItems ==
    <<"<", "u", "l", ">", "<", "l", "i", ">", "A", "P", "I", "<", "/",
      "l", "i", ">", "<", "l", "i", ">", "C", "h", "a", "t", "G", "P",
      "T", " ", "<", "b", ">", "W", "e", "b", "<", "/", "b", ">", "<",
      "/", "l", "i", ">", "<", "/", "u", "l", ">">>

Markups == { Flatten(p) : p \in SeqsUpTo(Pieces, MaxParts) } \cup {TwoItems}

HelperCalls ==
    { Call("_parse_interval", r) : r \in RawValues }
        \cup { Call("clean_html", t) : t \in Texts }
        \cup { Call("extract_components", h) : h \in Markups }

\* the module is being loaded (lines 20-44): no feed is watched yet
InitHelpers ==
    /\ FEEDS = <<>>
    /\ CHECK_INTERVAL = 0
    /\ source = "none"
    /\ pc = <<>>
    /\ seen_entries = <<>>
    /\ is_initialized = <<>>
    /\ feed = <<>>
    /\ idx = <<>>
    /\ attempt = <<>>
    /\ outcomes = <<>>
    /\ waits = <<>>
    /\ delay = <<>>
    /\ printed = <<>>
    /\ start = <<>>
    /\ fetched = <<>>
    /\ baseline = <<>>
    /\ mainPc = "load"
    /\ mainIdx = 0
    /\ errorLog = <<>>
    /\ call \in HelperCalls

\* line 32: CHECK_INTERVAL = _parse_interval(os.getenv("POLL_INTERVAL", "30"))
LoadInterval ==
    /\ call.fn = "_parse_interval"
    /\ ~call.done
    /\ CHECK_INTERVAL' = _parse_interval(call.arg)
    /\ call' = [call EXCEPT !.ret = _parse_interval(call.arg), !.done = TRUE]
    /\ UNCHANGED <<FEEDS, source, watcherVars, mainVars>>

\* lines 48-49
CleanHtmlReturns ==
    /\ call.fn = "clean_html"
    /\ ~call.done
    /\ call' = [call EXCEPT !.ret = clean_html(call.arg), !.done = TRUE]
    /\ UNCHANGED <<FEEDS, CHECK_INTERVAL, source, watcherVars, mainVars>>

\* lines 53-55
ExtractComponentsReturns ==
    /\ call.fn = "extract_components"
    /\ ~call.done
    /\ call' = [call EXCEPT !.ret = extract_components(call.arg), !.done = TRUE]
    /\ UNCHANGED <<FEEDS, CHECK_INTERVAL, source, watcherVars, mainVars>>

NextHelpers ==
    \/ LoadInterval
    \/ CleanHtmlReturns
    \/ ExtractComponentsReturns

SpecHelpers == InitHelpers /\ [][NextHelpers]_vars

\* The event loop runs every task that is ready: a sleep that has elapsed
\* and a fetch attempt that has returned are resumed.
FairMulti == SpecMulti /\ \A w \in {"A", "B"} : WF_vars(WatcherStep(w))

\* main's steps: lines 155-162
MainStep == GatherReturns \/ Report \/ MainReturns

\* As FairMulti, and main is resumed too once gather has its results.
FairAll == FairMulti /\ WF_vars(MainStep)

(***************************************************************************)
(* Properties.                                                             *)
(***************************************************************************)
NoDuplicates(q) == \A i, j \in 1..Len(q) : i # j => q[i] # q[j]

\* the events print_event was called for since the cycle began
CycleEvents(w) == SubSeq(printed[w], start[w].printed + 1, Len(printed[w]))

\* a cycle whose fetch returned a feed has run to its end
CycleDone(w) == pc[w] = "sleep" /\ feed[w].ok

\* the identifiers of `entries` that are present and not in `known`, each
\* once, in the order of their first occurrence
RECURSIVE NewIds(_, _)
NewIds(entries, known) ==
    IF entries = <<>> THEN <<>>
    ELSE IF Head(entries).id = NoId \/ Head(entries).id \in known
    THEN NewIds(Tail(entries), known)
    ELSE <<Head(entries).id>>
         \o NewIds(Tail(entries), known \cup {Head(entries).id})

(* C1: baseline suppression.  While the watcher is not initialized no      *)
(* event has been emitted, and when the first cycle whose fetch returned a *)
(* feed ends, still no event has been emitted and the seen-set is exactly  *)
(* the set of the non-empty identifiers of that snapshot.                  *)
C1_BaselineSuppression ==
    \A w \in Watchers :
        /\ ~is_initialized[w] => printed[w] = <<>>
        /\ (CycleDone(w) /\ ~start[w].init) =>
               /\ printed[w] = <<>>
               /\ seen_entries[w] = EntryIds(feed[w].entries)

\* a baseline cycle has ended on a snapshot that names one identifier twice
C1_Witness ==
    \E w \in Watchers :
        /\ CycleDone(w) /\ ~start[w].init
        /\ Len(feed[w].entries) = 2
        /\ feed[w].entries[1].id = feed[w].entries[2].id
        /\ feed[w].entries[1].id # NoId

(* C2: deduplication.  A watcher never emits two events for one            *)
(* identifier, and no event of a cycle is for an identifier that was in    *)
(* the seen-set when the cycle began.                                      *)
C2_Deduplication ==
    \A w \in Watchers :
        /\ NoDuplicates(printed[w])
        /\ \A i \in 1..Len(CycleEvents(w)) : CycleEvents(w)[i] \notin start[w].seen

\* a cycle after the baseline has ended on a snapshot that names a new
\* identifier twice, with one event for it
C2_Witness ==
    \E w \in Watchers :
        /\ CycleDone(w) /\ start[w].init
        /\ Len(feed[w].entries) = 2
        /\ feed[w].entries[1].id = feed[w].entries[2].id
        /\ CycleEvents(w) = <<feed[w].entries[1].id>>

InFetch(w) == pc[w] \in {"fetch", "backoff"}

(* C4: fetch_feed is total.  A step taken inside fetch_feed stays inside   *)
(* it or returns to watch_feed, whatever the attempt did; it has made at   *)
(* most MAX_RETRIES attempts; and what it returns is a parsed snapshot or  *)
(* None.  No step of fetch_feed ends the watcher.                          *)
C4_FetchTotal ==
    /\ [][\A w \in Watchers :
             InFetch(w) => (InFetch(w)' \/ pc'[w] = "returned")]_vars
    /\ [](\A w \in Watchers :
             /\ InFetch(w) => Len(outcomes[w]) < MAX_RETRIES
             /\ pc[w] = "returned" =>
                    \/ feed[w] = Unavailable
                    \/ feed[w].ok /\ feed[w].entries \in Served)

\* fetch_feed has returned after an attempt that raised
C4_Witness ==
    \E w \in Watchers :
        /\ pc[w] = "returned"
        /\ Len(outcomes[w]) >= 2
        /\ outcomes[w][1] = "fault"

(* C5: linear backoff.  The k-th backoff sleep of a fetch_feed call lasts  *)
(* RETRY_BACKOFF * k: the sleeps are a prefix of 5, 10, one after each     *)
(* failed attempt but the third; a call whose attempts 1 and 2 raise and   *)
(* whose attempt 3 parses has slept exactly 5 then 10 and returns the      *)
(* parsed snapshot.                                                        *)
C5_LinearBackoff ==
    \A w \in Watchers :
        /\ waits[w] \in {<<>>, <<5>>, <<5, 10>>}
        /\ pc[w] = "backoff" =>
               /\ delay[w] = 5 * attempt[w]
               /\ Len(waits[w]) = attempt[w]
               /\ outcomes[w] = [i \in 1..attempt[w] |-> "fault"]
        /\ outcomes[w] = <<"fault", "fault", "ok">> =>
               /\ pc[w] = "returned"
               /\ waits[w] = <<5, 10>>
               /\ delay[w] = 0
               /\ feed[w].ok

\* attempts 1 and 2 raised, attempt 3 returned a feed with entries
C5_Witness ==
    \E w \in Watchers :
        /\ outcomes[w] = <<"fault", "fault", "ok">>
        /\ feed[w].ok
        /\ feed[w].entries # <<>>

(* C6: retry ceiling.  A fetch_feed call makes at most 3 attempts; when    *)
(* all 3 raise it returns None having slept twice, with no sleep pending   *)
(* after the third failure.                                                *)
C6_RetryCeiling ==
    \A w \in Watchers :
        /\ Len(outcomes[w]) <= 3
        /\ attempt[w] \in 1..3
        /\ outcomes[w] = <<"fault", "fault", "fault">> =>
               /\ pc[w] = "returned"
               /\ feed[w] = Unavailable
               /\ Len(waits[w]) = 2
               /\ delay[w] = 0

\* all three attempts raised
C6_Witness ==
    \E w \in Watchers : outcomes[w] = <<"fault", "fault", "fault">>

(* C7: a malformed feed is not retried.  An attempt that parses with the   *)
(* bozo flag set is the last attempt of its call: fetch_feed has returned  *)
(* None, no sleep is pending and no backoff sleep was added for it.        *)
C7_MalformedNotRetried ==
    \A w \in Watchers :
        \A i \in 1..Len(outcomes[w]) :
            outcomes[w][i] = "bozo" =>
                /\ i = Len(outcomes[w])
                /\ pc[w] = "returned"
                /\ feed[w] = Unavailable
                /\ delay[w] = 0
                /\ Len(waits[w]) = i - 1

\* a bozo feed on the attempt after a failed one
C7_Witness ==
    \E w \in Watchers : outcomes[w] = <<"fault", "bozo">>

\* everything watch_feed and fetch_feed hold for one feed
WatcherState(w) ==
    <<pc[w], seen_entries[w], is_initialized[w], feed[w], idx[w], attempt[w],
      outcomes[w], waits[w], delay[w], printed[w]>>

\* the watcher stands at the first attempt of a new fetch_feed call
FreshCall(w) == pc[w] = "fetch" /\ outcomes[w] = <<>>

\* the entry the watcher stands at makes the loop body raise
OwnFault(w) ==
    \/ InLoop(w) /\ ~NotEid(Current(w).id) /\ Current(w).fault = "summary"
    \/ pc[w] = "emit" /\ Current(w).fault = "time"

(* C8: multi-feed isolation.  The step in which a watcher crashes changes  *)
(* nothing of any other watcher (its seen-set, flag, position, events);    *)
(* a watcher ends only on a fault of its own loop body and is never        *)
(* stopped otherwise; and with the other watcher crashed, a watcher still  *)
(* starts new cycles and emits the event it is about to emit.              *)
C8_Isolation ==
    /\ [][\A a \in Watchers :
             (pc[a] # "crashed" /\ pc'[a] = "crashed") =>
                 /\ OwnFault(a)
                 /\ \A b \in Watchers \ {a} : WatcherState(b)' = WatcherState(b)]_vars
    /\ [](\A b \in Watchers :
             pc[b] \in {"fetch", "backoff", "returned", "entries", "emit",
                        "sleep", "crashed"})
    /\ \A a \in {"A", "B"} : \A b \in {"A", "B"} \ {a} :
           /\ (pc[a] = "crashed" /\ pc[b] # "crashed")
                  ~> (FreshCall(b) \/ pc[b] = "crashed")
           /\ (pc[a] = "crashed" /\ pc[b] = "emit" /\ ~OwnFault(b)
                                 /\ printed[b] = <<>>)
                  ~> (printed[b] = <<1>>)

\* one watcher has crashed and the other, initialized, is about to emit
C8_Witness ==
    \E a, b \in Watchers :
        /\ a # b
        /\ pc[a] = "crashed"
        /\ pc[b] = "emit"
        /\ ~OwnFault(b)

(* C9: an unavailable cycle changes nothing.  From the call of fetch_feed  *)
(* to the poll sleep of a cycle whose fetch returned None, the seen-set,   *)
(* the initialized flag and the events are those of the cycle's start, and *)
(* the sleep lasts the poll interval; a watcher no fetch of which has      *)
(* returned a feed is uninitialized with an empty seen-set and no event.   *)
C9_UnavailableCycle ==
    \A w \in Watchers :
        /\ (InFetch(w) \/ (pc[w] \in {"returned", "sleep"} /\ ~feed[w].ok)) =>
               /\ seen_entries[w] = start[w].seen
               /\ is_initialized[w] = start[w].init
               /\ Len(printed[w]) = start[w].printed
        /\ (pc[w] = "sleep" /\ ~feed[w].ok) => delay[w] = CHECK_INTERVAL
        /\ ~fetched[w] =>
               /\ ~is_initialized[w]
               /\ seen_entries[w] = {}
               /\ printed[w] = <<>>

\* an initialized watcher with a seen-set and an event sleeps after an
\* unavailable cycle
C9_Witness ==
    \E w \in Watchers :
        /\ pc[w] = "sleep" /\ ~feed[w].ok
        /\ is_initialized[w]
        /\ printed[w] # <<>>
        /\ seen_entries[w] # Range(printed[w])

(* C10: the watcher keeps polling.  Under fair scheduling, after every     *)
(* fetch_feed call that has returned (a feed, a malformed feed, or all     *)
(* retries exhausted) the watcher calls fetch_feed again unless its loop   *)
(* body raises; a watcher that never crashes calls fetch_feed infinitely   *)
(* often.                                                                  *)
C10_KeepsPolling ==
    \A w \in {"A", "B"} :
        /\ (pc[w] = "returned") ~> (FreshCall(w) \/ pc[w] = "crashed")
        /\ []<>FreshCall(w) \/ <>[](pc[w] = "crashed")

\* a watcher that has emitted an event starts another cycle
C10_Witness ==
    \E w \in Watchers :
        /\ FreshCall(w)
        /\ is_initialized[w]
        /\ printed[w] # <<>>

(* C11: crash reporting.  Whenever a watcher has crashed, main eventually   *)
(* logs the crash with that feed's identity.                               *)
C11_CrashLogged ==
    \A w \in {"A", "B"} : (pc[w] = "crashed") ~> (w \in Range(errorLog))

\* the decimal numeral of n >= 0
RECURSIVE Numeral(_)
Numeral(n) ==
    IF n < 10 THEN <<Digits[n + 1]>>
    ELSE Numeral(n \div 10) \o <<Digits[(n % 10) + 1]>>

Returned_parse_interval == call.fn = "_parse_interval" /\ call.done

(* C12: poll-interval floor.  _parse_interval returns the integer it is    *)
(* given when that is at least 10 (45 gives 45, 10 gives 10) and 30 for    *)
(* every integer below 10 (5, 0, negative ones) and for every value that   *)
(* is no integer; what it returns is at least 10.                          *)
C12_IntervalFloor ==
    Returned_parse_interval =>
        /\ CHECK_INTERVAL = call.ret
        /\ call.ret >= 10
        /\ \A n \in 0..999 :
               /\ call.arg = Numeral(n) => call.ret = IF n >= 10 THEN n ELSE 30
               /\ call.arg = <<"-">> \o Numeral(n) => call.ret = 30
        /\ (\E i \in 1..Len(call.arg) : call.arg[i] = "x") => call.ret = 30
        /\ call.arg \in {<<>>, <<"-">>, <<" ">>, <<"4", " ", "5">>} => call.ret = 30

\* the floor itself was given
C12_Witness ==
    /\ Returned_parse_interval
    /\ call.arg = <<"1", "0">>
    /\ call.ret = 10

Returned_clean_html == call.fn = "clean_html" /\ call.done

\* some substring of s matches the tag pattern <[^<]+?>
HasTag(s) ==
    \E i, j \in 1..Len(s) :
        /\ s[i] = "<"
        /\ s[j] = ">"
        /\ j >= i + 2
        /\ \A k \in (i + 1)..(j - 1) : s[k] # "<"

\* every "<" of s opens a tag: at least one character and then a ">"
\* follow it with no "<" in between
EveryOpenCloses(s) ==
    \A i \in 1..Len(s) :
        s[i] = "<" =>
            \E j \in (i + 2)..Len(s) :
                /\ s[j] = ">"
                /\ \A k \in (i + 1)..(j - 1) : s[k] # "<"

(* C13 as stated: for every input, the output of clean_html has no         *)
(* substring matching the tag pattern and clean_html is idempotent.        *)
C13_StripIdempotent ==
    Returned_clean_html =>
        /\ ~HasTag(call.ret)
        /\ clean_html(call.ret) = call.ret

(* C13 as amended: for every input in which every "<" opens a tag (no      *)
(* nested and no unclosed "<"), the output of clean_html has no substring  *)
(* matching the tag pattern and clean_html of it is itself.                *)
C13_StripIdempotentTagged ==
    (Returned_clean_html /\ EveryOpenCloses(call.arg)) =>
        /\ ~HasTag(call.ret)
        /\ clean_html(call.ret) = call.ret

\* a tag and the blanks around a letter were stripped
C13_Witness ==
    /\ Returned_clean_html
    /\ call.arg = <<"<", "a", ">", " ", "a", " ">>
    /\ EveryOpenCloses(call.arg)
    /\ call.ret = <<"a">>

Returned_extract_components == call.fn = "extract_components" /\ call.done

(* C14: component extractor output.  Every string extract_components       *)
(* returns is non-empty, also for list items that hold only tags or only   *)
(* blanks; a summary without list item gives the empty sequence; the list  *)
(* of "API" and "ChatGPT <b>Web</b>" gives "API", "ChatGPT Web" in that    *)
(* order.                                                                  *)
C14_ComponentsNonEmpty ==
    Returned_extract_components =>
        /\ \A i \in 1..Len(call.ret) : call.ret[i] # <<>>
        /\ Find(call.arg, 1, LiOpen) = 0 => call.ret = <<>>
        /\ call.arg = TwoItems =>
               call.ret = <<<<"A", "P", "I">>, <<"C", "h", "a", "t", "G", "P", "T", " ", "W", "e", "b">>>>

(* C15: watcher state machine.  is_initialized starts False and stays      *)
(* False until a fetch has returned a feed; it becomes True only in the    *)
(* step that ends the for loop over a fetched snapshot, of any length;     *)
(* after every cycle that ran to its end on a fetched snapshot it is True, *)
(* so the first such cycle is the one that sets it; an unavailable cycle   *)
(* leaves it as it was; once True it stays True; and no event has been     *)
(* emitted while it is False.                                              *)
C15_StateMachine ==
    /\ [][\A w \in Watchers :
             /\ is_initialized[w] => is_initialized'[w]
             /\ (~is_initialized[w] /\ is_initialized'[w]) =>
                    /\ pc[w] = "entries"
                    /\ feed[w].ok
                    /\ idx[w] = Len(feed[w].entries) + 1
                    /\ pc'[w] = "sleep"]_vars
    /\ [](\A w \in Watchers :
             /\ ~fetched[w] => ~is_initialized[w]
             /\ ~is_initialized[w] => printed[w] = <<>>
             /\ CycleDone(w) => is_initialized[w]
             /\ (pc[w] = "sleep" /\ ~feed[w].ok) =>
                    is_initialized[w] = start[w].init)

\* the first fetched snapshot had no entry and its cycle initialized the
\* watcher
C15_Witness ==
    \E w \in Watchers :
        /\ CycleDone(w)
        /\ ~start[w].init
        /\ feed[w].entries = <<>>
        /\ is_initialized[w]
        /\ printed[w] = <<>>

\* the snapshot without its identifier-less entries
WithId(entries) == SelectSeq(entries, LAMBDA e : e.id # NoId)

\* what a cycle does with a snapshot in which every entry has an
\* identifier: the identifiers not in `known`, each once, in order
RECURSIVE FreshIds(_, _)
FreshIds(entries, known) ==
    IF entries = <<>> THEN <<>>
    ELSE IF Head(entries).id \in known
    THEN FreshIds(Tail(entries), known)
    ELSE <<Head(entries).id>>
         \o FreshIds(Tail(entries), known \cup {Head(entries).id})

(* C16: entry without identifier.  The step taken at an entry whose        *)
(* identifier is missing only moves the loop to the next entry: seen-set,  *)
(* events and the initialized flag are as before and the watcher goes on,  *)
(* whatever else the entry holds.  A cycle that ran to its end has the     *)
(* seen-set and the events it would have on the snapshot without those     *)
(* entries, and the missing identifier is never in the seen-set nor in an  *)
(* event.                                                                  *)
C16_NoIdSkipped ==
    /\ [][\A w \in Watchers :
             (InLoop(w) /\ Current(w).id = NoId
                  /\ WatcherState(w)' # WatcherState(w)) =>
                 /\ seen_entries'[w] = seen_entries[w]
                 /\ printed'[w] = printed[w]
                 /\ is_initialized'[w] = is_initialized[w]
                 /\ pc'[w] = "entries"
                 /\ idx'[w] = idx[w] + 1]_vars
    /\ [](\A w \in Watchers :
             /\ NoId \notin seen_entries[w]
             /\ \A i \in 1..Len(printed[w]) : printed[w][i] # NoId
             /\ CycleDone(w) =>
                    /\ seen_entries[w] = start[w].seen \cup
                           { WithId(feed[w].entries)[i].id :
                                 i \in 1..Len(WithId(feed[w].entries)) }
                    /\ CycleEvents(w) =
                           IF start[w].init
                           THEN FreshIds(WithId(feed[w].entries), start[w].seen)
                           ELSE <<>>)

\* a later cycle ended on a snapshot whose first entry has no identifier
\* and a summary that is no string, and whose second entry was new
C16_Witness ==
    \E w \in Watchers :
        /\ CycleDone(w)
        /\ start[w].init
        /\ Len(feed[w].entries) = 2
        /\ feed[w].entries[1] = [id |-> NoId, fault |-> "summary"]
        /\ feed[w].entries[2].id \notin start[w].seen
        /\ CycleEvents(w) = <<feed[w].entries[2].id>>

(* C17: seen-set monotonicity.  In every step the seen-set of every        *)
(* watcher keeps all the identifiers it had.                               *)
C17_SeenMonotone ==
    [][\A w \in Watchers : seen_entries[w] \subseteq seen_entries'[w]]_vars

\* a seen-set that grew in a later cycle went through an unavailable cycle
C17_Witness ==
    \E w \in Watchers :
        /\ pc[w] = "sleep"
        /\ ~feed[w].ok
        /\ printed[w] # <<>>
        /\ Cardinality(seen_entries[w]) = NumIds

\* the first position of identifier id in `entries`
FirstPos(entries, id) ==
    CHOOSE i \in 1..Len(entries) :
        /\ entries[i].id = id
        /\ \A j \in 1..(i - 1) : entries[j].id # id

(* C18: in-feed ordering.  The loop moves over the snapshot one entry at a *)
(* time, from the first to the last; an event is appended for the entry    *)
(* the loop stands at and events already emitted stay where they are, so   *)
(* the events of earlier cycles precede those of the cycle under way; and  *)
(* the events of a cycle name entries already passed, in the order of      *)
(* those entries in the snapshot.                                          *)
C18_InFeedOrder ==
    /\ [][\A w \in Watchers :
             /\ (pc[w] \in {"entries", "emit"} /\ idx'[w] # idx[w]) =>
                    idx'[w] = idx[w] + 1
             /\ \/ printed'[w] = printed[w]
                \/ /\ pc[w] = "emit"
                   /\ printed'[w] = Append(printed[w], Current(w).id)]_vars
    /\ [](\A w \in Watchers :
             /\ start[w].printed <= Len(printed[w])
             /\ (feed[w].ok /\ idx[w] >= 1) =>
                    /\ \A i \in 1..Len(CycleEvents(w)) :
                           \E k \in 1..Len(feed[w].entries) :
                               /\ k <= idx[w]
                               /\ feed[w].entries[k].id = CycleEvents(w)[i]
                    /\ \A i, j \in 1..Len(CycleEvents(w)) :
                           i < j =>
                               FirstPos(feed[w].entries, CycleEvents(w)[i])
                                 < FirstPos(feed[w].entries, CycleEvents(w)[j]))

\* one cycle emitted two events, for the snapshot's entries in their order
C18_Witness ==
    \E w \in Watchers :
        /\ CycleDone(w)
        /\ Len(CycleEvents(w)) = 2
        /\ feed[w].entries[1].id = CycleEvents(w)[1]
        /\ feed[w].entries[2].id = CycleEvents(w)[2]
        /\ CycleEvents(w)[1] > CycleEvents(w)[2]

(* C19: report timing.  While some watcher has not ended, main is still in *)
(* gather and has logged no crash; what main has logged is a prefix of     *)
(* FEEDS, so each feed is logged at most once and under its own URL; and   *)
(* when main is done every feed, all of them crashed, has been logged.     *)
C19_ReportAfterAll ==
    /\ (\E w \in Watchers : pc[w] # "crashed") =>
           (mainPc = "gather" /\ errorLog = <<>>)
    /\ Len(errorLog) <= Len(FEEDS)
    /\ errorLog = SubSeq(FEEDS, 1, Len(errorLog))
    /\ NoDuplicates(errorLog)
    /\ mainPc = "done" => errorLog = FEEDS

\* both watchers crashed and main logged both, in the order of FEEDS
C19_Witness ==
    /\ mainPc = "done"
    /\ errorLog = <<"A", "B">>
    /\ \A w \in Watchers : pc[w] = "crashed"

\* the watcher stands between two cycles
AtBoundary(w) == pc[w] \in {"fetch", "backoff", "returned", "sleep"}

(* C20: seen-set accounting.  Between two cycles the seen-set is the union *)
(* of the identifiers of the baseline snapshot and the identifiers of the  *)
(* events emitted so far; until a fetch has returned a feed it is empty;   *)
(* at every moment each event's identifier is in the seen-set and is not   *)
(* one of the baseline's.                                                  *)
C20_SeenAccounting ==
    \A w \in Watchers :
        /\ AtBoundary(w) =>
               seen_entries[w] = baseline[w] \cup Range(printed[w])
        /\ ~fetched[w] => seen_entries[w] = {}
        /\ ~is_initialized[w] => baseline[w] = {}
        /\ Range(printed[w]) \subseteq seen_entries[w]
        /\ Range(printed[w]) \cap baseline[w] = {}

\* between two cycles, after a baseline with an identifier and an event
C20_Witness ==
    \E w \in Watchers :
        /\ pc[w] = "sleep"
        /\ baseline[w] # {}
        /\ printed[w] # <<>>
        /\ seen_entries[w] = baseline[w] \cup Range(printed[w])

=============================================================================
